---- MODULE Spec2Model ----
(***************************************************************************)
(* Model of the product import service (ProductImportService and           *)
(* ProductController): the chunked streaming driver importProducts, the    *)
(* per-chunk reconciliation processChunk, the reference-entity resolvers   *)
(* checkVendor / ensureManufacturer and the variant builder.               *)
(*                                                                         *)
(* Strings that the code concatenates (ItemID, ManufacturerItemCode, PKG)  *)
(* are sequences of characters, so that the sku is a real concatenation.   *)
(* Prices are kept in hundredths (parseFloat("5.50") is 550).              *)
(* nanoid() returns a value never returned before: the model names each    *)
(* call by the place that makes it (kind, the number of the row in the     *)
(* file it is made for, and the processChunk invocation that makes it:     *)
(* the run and the handler that awaits it).                                *)
(*                                                                         *)
(* Every call of importProducts is a run with a stream, a chunk buffer and *)
(* a promise of its own; nothing keeps two runs apart. A processChunk      *)
(* invocation is followed store operation by store operation (each await   *)
(* is a step), so that the invocations of one run and of different runs    *)
(* interleave on the three collections.                                    *)
(*                                                                         *)
(* Specifications: Spec (the timer's run and the request's run, at any     *)
(* time, with store and stream failures), SpecFair (Spec with the store    *)
(* answering the 'end' handlers), SpecTwice (one file imported twice in    *)
(* succession) and SpecRun (one run over several chunks).                  *)
(***************************************************************************)
EXTENDS Integers, Sequences, FiniteSets, TLC


\* The number of rows that the runs of one behaviour of Spec read in all,
\* and the length of the longest file of Spec and SpecTwice.
MaxRows == 2

\* The number of rows of a file that one run reads across chunk boundaries.
MaxFile == 3

\* const chunkSize = 1000 in the source; scaled down so that full chunks,
\* a final partial chunk and a file of exactly one full chunk all occur.
chunkSize == 2

Handlers == {"data", "end"}

Runs == {"cron", "http"}

NoId == [k |-> "none", n |-> 0, h |-> <<"none", "none">>]
NaN == -1000000

\* ---------------------------------------------------------------- rows
\* The rows a file can hold (fields of the header list that the code reads).
Row(site, item, mid, mname, pid, pname, code, idesc, pkg, price, qty) ==
  [SiteSource |-> site, ItemID |-> item, ManufacturerID |-> mid,
   ManufacturerName |-> mname, ProductID |-> pid, ProductName |-> pname,
   ManufacturerItemCode |-> code, ItemDescription |-> idesc, PKG |-> pkg,
   UnitPrice |-> price, QuantityOnHand |-> qty]

RowPool ==
  { Row("AcmeMed", <<"I","1">>, "M1", "Acme", "10", "Gauze", <<"C","1">>,
        "Sterile 4x4", <<"B">>, "5.50", "3"),
    Row("AcmeMed", <<"I","1">>, "M1", "AcmeCo", "10", "Gauze", <<"C","1">>,
        "Sterile 4x4", <<"B">>, "12", "3"),
    Row("AcmeMed", <<"I","2">>, "M1", "Acme", "10", "Gauze", <<"C","1">>,
        "Sterile 2x2", <<"B">>, "abc", ""),
    Row("OtherMed", <<"I">>, "M2", "Other", "2", "Tape", <<"1","C">>,
        "Tape 1in", <<"1","B">>, "3x", "0"),
    Row("OtherMed", <<"I","3">>, "M2", "Other", "constructor", "Kit",
        <<"C","3">>, "Kit", <<"B">>, "1", "1"),
    Row("Ghost", <<"I","1">>, "M9", "Nobody", "", "NoProduct", <<"C","1">>,
        "d", <<"B">>, "1", "1"),
    Row("Ghost", <<>>, "M9", "Nobody", "10", "NoItem", <<"C","1">>,
        "d", <<"B">>, "1", "1") }

\* ------------------------------------------------------- pure helpers
\* parseFloat on the UnitPrice strings of RowPool, in hundredths.
parseFloat(value) ==
  CASE value = "5.50" -> 550
    [] value = "12" -> 1200
    [] value = "1" -> 100
    [] value = "3x" -> 300
    [] OTHER -> NaN

\* parseInt(value, 10) on the QuantityOnHand strings of RowPool.
parseInt(value) ==
  CASE value = "3" -> 3
    [] value = "1" -> 1
    [] value = "0" -> 0
    [] OTHER -> NaN

parseNumber(value) ==
  LET parsed == parseFloat(value) IN IF parsed = NaN THEN 0 ELSE parsed

parseBoolean(value) ==
  LET parsed == parseInt(value) IN parsed # NaN /\ parsed > 0

\* A stamped row: the row and its number n in the file. h names the
\* processChunk invocation that builds the variant: <<run, handler>>.
constructVariant(sr, h) ==
  LET row == sr.row IN
  [id |-> [k |-> "variant", n |-> sr.n, h |-> h],
   available |-> parseBoolean(row.QuantityOnHand),
   description |-> row.ItemDescription,
   price |-> parseNumber(row.UnitPrice),
   sku |-> row.ItemID \o row.ManufacturerItemCode \o row.PKG]

\* Mutant: a price change alone is not seen as an update.
isVariantUpdatedNoPrice(existingVariant, updatedVariant) ==
  \/ existingVariant.available # updatedVariant.available
  \/ existingVariant.description # updatedVariant.description

isVariantUpdated(existingVariant, updatedVariant) ==
  \/ existingVariant.price # updatedVariant.price
  \/ existingVariant.available # updatedVariant.available
  \/ existingVariant.description # updatedVariant.description

\* --------------------------------------------------------- collections
\* A collection is the sequence of its documents in insertion order.
\* A Product document: [productID, docId, name, vendorId, manufacturerId,
\* variants]; docId = NoId stands for a stored record without a docId.
\* The position of the first document whose field has the value, 0 if none.
IndexOf(seq, field, value) ==
  IF \E i \in 1..Len(seq) : seq[i][field] = value
  THEN CHOOSE i \in 1..Len(seq) :
         seq[i][field] = value /\ \A j \in 1..(i-1) : seq[j][field] # value
  ELSE 0

LastIndexOf(seq, field, value) ==
  IF \E i \in 1..Len(seq) : seq[i][field] = value
  THEN CHOOSE i \in 1..Len(seq) :
         seq[i][field] = value /\ \A j \in (i+1)..Len(seq) : seq[j][field] # value
  ELSE 0

MergeFields(doc, fields) ==
  [f \in DOMAIN doc \cup DOMAIN fields |->
     IF f \in DOMAIN fields THEN fields[f] ELSE doc[f]]

\* Map.set on a Map kept as the sequence of its entries in insertion order:
\* an existing key keeps its place and takes the new value.
mapSet(m, key, value) ==
  LET i == IndexOf(m, "key", key) IN
  IF i = 0 THEN Append(m, [key |-> key, value |-> value])
  ELSE [m EXCEPT ![i].value = value]

mapGet(m, key) == m[IndexOf(m, "key", key)].value

mapHas(m, key) == IndexOf(m, "key", key) # 0

mapValues(m) == [i \in 1..Len(m) |-> m[i].value]

\* ------------------------------------------------- processChunk: grouping
\* Mutant: only the ProductID is required.
skipRowProductIDOnly(currentItem) == currentItem.ProductID = ""

\* The guard of the reduce callback: !productID || !itemId.
skipRow(currentItem) ==
  currentItem.ProductID = "" \/ currentItem.ItemID = <<>>

\* The property names that the accumulator, a plain object ({} at line
\* 157), inherits from Object.prototype: accumulator[productID] is truthy
\* for them before any group was stored.
ObjectPrototype ==
  {"constructor", "__proto__", "hasOwnProperty", "isPrototypeOf",
   "propertyIsEnumerable", "toLocaleString", "toString", "valueOf",
   "__defineGetter__", "__defineSetter__", "__lookupGetter__",
   "__lookupSetter__"}

\* accumulator[productID]: the group stored under the key, if any.
ownIndex(object, productID) == IndexOf(object, "productID", productID)

\* !accumulator[productID]: nothing stored and nothing inherited.
isFalsy(object, productID) ==
  ownIndex(object, productID) = 0 /\ productID \notin ObjectPrototype

\* One step of chunk.reduce. The accumulator object is kept as the sequence
\* of its own properties (the groups) in insertion order; threw: line 154
\* read .variants of an inherited property, which is undefined, and push
\* on it raised a TypeError.
groupStep(accumulator, currentItem, h) ==
  IF skipRow(currentItem.row) THEN accumulator
  ELSE
    LET productID == currentItem.row.ProductID
        opened == IF isFalsy(accumulator.object, productID)
                  THEN Append(accumulator.object,
                              [productID |-> productID, row |-> currentItem,
                               variants |-> <<>>])
                  ELSE accumulator.object
        i == ownIndex(opened, productID)
        variant == constructVariant(currentItem, h)
    IN IF i = 0
       THEN [accumulator EXCEPT !.threw = TRUE]
       ELSE [accumulator EXCEPT
               !.object = [opened EXCEPT ![i].variants = Append(@, variant)]]

\* chunk.reduce(callback, {}): an exception of the callback ends it.
RECURSIVE reduceRows(_, _, _, _)
reduceRows(chunkRows, i, accumulator, h) ==
  IF i > Len(chunkRows) \/ accumulator.threw THEN accumulator
  ELSE reduceRows(chunkRows, i + 1, groupStep(accumulator, chunkRows[i], h), h)

groupedData(chunkRows, h) ==
  reduceRows(chunkRows, 1, [object |-> <<>>, threw |-> FALSE], h)

\* The decimal digits of a ProductID made of digits only, <<>> for any
\* other (a string cannot be taken apart here: the digit strings that the
\* rows use are listed).
digitsOf(key) ==
  CASE key = "2" -> <<2>>
    [] key = "10" -> <<1, 0>>
    [] key = "007" -> <<0, 0, 7>>
    [] OTHER -> <<>>

\* a < b for digit sequences of equal length.
RECURSIVE digitsLess(_, _, _)
digitsLess(a, b, i) ==
  IF i > Len(a) THEN FALSE
  ELSE IF a[i] # b[i] THEN a[i] < b[i]
  ELSE digitsLess(a, b, i + 1)

\* a < b for canonical digit sequences.
indexLess(a, b) ==
  Len(a) < Len(b) \/ (Len(a) = Len(b) /\ digitsLess(a, b, 1))

\* An integer-like key (an array index): the canonical decimal form of an
\* integer from 0 to 2^32 - 2.
isArrayIndex(key) ==
  LET d == digitsOf(key) IN
  /\ Len(d) > 0
  /\ Len(d) = 1 \/ d[1] # 0
  /\ indexLess(d, <<4, 2, 9, 4, 9, 6, 7, 2, 9, 5>>)

\* The first of the groups whose key is the least.
least(groups) ==
  CHOOSE i \in 1..Len(groups) :
    /\ \A j \in 1..Len(groups) :
         ~indexLess(digitsOf(groups[j].productID), digitsOf(groups[i].productID))
    /\ \A k \in 1..(i - 1) :
         indexLess(digitsOf(groups[i].productID), digitsOf(groups[k].productID))

RECURSIVE ascending(_)
ascending(groups) ==
  IF Len(groups) = 0 THEN <<>>
  ELSE LET m == least(groups)
       IN <<groups[m]>> \o
          ascending(SubSeq(groups, 1, m - 1) \o SubSeq(groups, m + 1, Len(groups)))

\* Object.keys(object): the integer-like keys in ascending numeric order,
\* then the other keys in insertion order.
objectKeys(object) ==
  ascending(SelectSeq(object, LAMBDA g : isArrayIndex(g.productID)))
  \o SelectSeq(object, LAMBDA g : ~isArrayIndex(g.productID))

\* const productIDs = Object.keys(groupedData): the groups in the order in
\* which the loop of line 172 takes them.
productIDs(chunkRows, h) == objectKeys(groupedData(chunkRows, h).object)

\* processChunk(chunk) throws in the reduce, before its first await.
throwsTypeError(chunkRows) == groupedData(chunkRows, NoId.h).threw

\* Mutant: the lookup finds nothing.
findExistingNone(coll, groups) == <<>>

\* productModel.find({productID: {$in: productIDs}})
findExisting(coll, groups) ==
  SelectSeq(coll, LAMBDA d : \E i \in 1..Len(groups) : groups[i].productID = d.productID)

\* existingProductsMap: the last document found for a productID.
existingHas(existing, productID) ==
  LastIndexOf(existing, "productID", productID) # 0

existingGet(existing, productID) ==
  existing[LastIndexOf(existing, "productID", productID)]

\* ------------------------------------------------ reference entities
\* Mutant: the lookup never finds the vendor.
findOneVendorNever(coll, siteSource) == 0

\* vendorModel.findOne({ name: siteSource }): the position of the document
\* found, 0 for null.
findOneVendor(coll, siteSource) == IndexOf(coll, "name", siteSource)

\* new this.vendorModel({vendorId: nanoid(), siteSource, name}).save()
saveVendor(coll, siteSource, newId) ==
  Append(coll, [vendorId |-> newId, siteSource |-> siteSource,
                name |-> siteSource])

checkVendor(coll, siteSource, newId) ==
  LET i == findOneVendor(coll, siteSource) IN
  IF i = 0
  THEN [coll |-> saveVendor(coll, siteSource, newId), id |-> newId]
  ELSE [coll |-> coll, id |-> coll[i].vendorId]

\* Mutant: the lookup never finds the manufacturer.
findOneManufacturerNever(coll, manufacturerId) == 0

\* manufacturerModel.findOne({ manufacturerId })
findOneManufacturer(coll, manufacturerId) ==
  IndexOf(coll, "manufacturerId", manufacturerId)

\* new this.manufacturerModel({manufacturerId, name}).save()
saveManufacturer(coll, manufacturerId, manufacturerName) ==
  Append(coll, [manufacturerId |-> manufacturerId, name |-> manufacturerName])

ensureManufacturer(coll, manufacturerId, manufacturerName) ==
  LET i == findOneManufacturer(coll, manufacturerId) IN
  IF i = 0
  THEN [coll |-> saveManufacturer(coll, manufacturerId, manufacturerName),
        id |-> manufacturerId]
  ELSE [coll |-> coll, id |-> coll[i].manufacturerId]

\* ------------------------------------------------ processChunk: merge
RECURSIVE mergeInto(_, _, _)
mergeInto(variantMap, variants, i) ==
  IF i > Len(variants) THEN variantMap
  ELSE
    LET variant == variants[i]
        next ==
          IF mapHas(variantMap, variant.sku)
          THEN IF isVariantUpdated(mapGet(variantMap, variant.sku), variant)
               THEN mapSet(variantMap, variant.sku, variant)
               ELSE variantMap
          ELSE mapSet(variantMap, variant.sku, variant)
    IN mergeInto(next, variants, i + 1)

RECURSIVE mapFrom(_, _, _)
mapFrom(variantMap, existingVariants, i) ==
  IF i > Len(existingVariants) THEN variantMap
  ELSE mapFrom(mapSet(variantMap, existingVariants[i].sku, existingVariants[i]),
               existingVariants, i + 1)

\* Mutant: the merge starts from an empty map.
mergeVariantsIncomingOnly(existingVariants, variants) ==
  mapValues(mergeInto(<<>>, variants, 1))

mergeVariants(existingVariants, variants) ==
  mapValues(mergeInto(mapFrom(<<>>, existingVariants, 1), variants, 1))

\* productDoc of one group, before the docId fallback.
productDocOf(group, existing, vendorId, manufacturerId, h) ==
  IF existingHas(existing, group.productID)
  THEN [existingGet(existing, group.productID) EXCEPT
          !.name = group.row.row.ProductName,
          !.vendorId = vendorId,
          !.manufacturerId = manufacturerId,
          !.variants = mergeVariants(@, group.variants)]
  ELSE [docId |-> [k |-> "doc", n |-> group.row.n, h |-> h],
        productID |-> group.productID,
        name |-> group.row.row.ProductName,
        vendorId |-> vendorId,
        manufacturerId |-> manufacturerId,
        variants |-> group.variants]

\* if (!productDoc.docId) productDoc.docId = nanoid()
docIdFallback(productDoc, newId) ==
  IF productDoc.docId = NoId THEN [productDoc EXCEPT !.docId = newId]
  ELSE productDoc

\* Mutant: docId is among the fields of $set.
setFieldsWithDocId(productDoc) ==
  [productID |-> productDoc.productID, name |-> productDoc.name,
   vendorId |-> productDoc.vendorId,
   manufacturerId |-> productDoc.manufacturerId,
   variants |-> productDoc.variants, docId |-> productDoc.docId]

\* updateDoc.$set (the fields the model keeps).
setFields(productDoc) ==
  [productID |-> productDoc.productID, name |-> productDoc.name,
   vendorId |-> productDoc.vendorId,
   manufacturerId |-> productDoc.manufacturerId,
   variants |-> productDoc.variants]

\* updateDoc.$setOnInsert: present only when the product was not found.
setOnInsertFields(productDoc, found) ==
  IF found THEN <<>> ELSE [docId |-> productDoc.docId]

bulkOp(group, existing, vendorId, manufacturerId, h) ==
  LET productDoc ==
        docIdFallback(productDocOf(group, existing, vendorId, manufacturerId, h),
                      [k |-> "docFallback", n |-> group.row.n, h |-> h])
  IN [filter |-> [productID |-> group.productID],
      set |-> setFields(productDoc),
      setOnInsert |-> setOnInsertFields(productDoc,
                                        existingHas(existing, group.productID))]

\* updateOne with upsert: true.
updateOne(coll, op) ==
  LET i == IndexOf(coll, "productID", op.filter.productID) IN
  IF i = 0
  THEN Append(coll, MergeFields(MergeFields(MergeFields([docId |-> NoId],
                                  op.filter), op.set), op.setOnInsert))
  ELSE [coll EXCEPT ![i] = MergeFields(@, op.set)]

\* bulkWrite is ordered: the first `applied` operations take effect.
RECURSIVE bulkWrite(_, _, _, _)
bulkWrite(coll, bulkOps, i, applied) ==
  IF i > applied THEN coll
  ELSE bulkWrite(updateOne(coll, bulkOps[i]), bulkOps, i + 1, applied)

\* ------------------------------------------- processChunk: the group loop
\* Where a store operation of processChunk throws (the store is unavailable):
\* checkVendor or ensureManufacturer of group i, or bulkWrite after i of its
\* operations were applied.
NoFail == [at |-> "none", i |-> 0]

FailPoints(groups) ==
  {NoFail}
  \cup {[at |-> a, i |-> i] : a \in {"checkVendor", "ensureManufacturer"},
                              i \in 1..Len(groups)}
  \cup {[at |-> "bulkWrite", i |-> k] : k \in 0..(Len(groups) - 1)}

\* for (const productID of productIDs) { ... bulkOps.push(...) }
RECURSIVE groupLoop(_, _, _, _, _, _)
groupLoop(st, groups, existing, i, f, h) ==
  IF i > Len(groups) THEN st
  ELSE IF f = [at |-> "checkVendor", i |-> i] THEN [st EXCEPT !.thrown = TRUE]
  ELSE
    LET group == groups[i]
        cv == checkVendor(st.vendors, group.row.row.SiteSource,
                          [k |-> "vendor", n |-> group.row.n, h |-> h])
    IN IF f = [at |-> "ensureManufacturer", i |-> i]
       THEN [st EXCEPT !.vendors = cv.coll, !.thrown = TRUE]
       ELSE
         LET em == ensureManufacturer(st.manufacturers,
                                      group.row.row.ManufacturerID,
                                      group.row.row.ManufacturerName)
         IN groupLoop([vendors |-> cv.coll, manufacturers |-> em.coll,
                       bulkOps |-> Append(st.bulkOps,
                                          bulkOp(group, existing, cv.id, em.id, h)),
                       thrown |-> FALSE],
                      groups, existing, i + 1, f, h)

\* processChunk from the return of productModel.find on, when no other
\* invocation touches the collections meanwhile: the collections it leaves,
\* whether it threw, and the number of operations of the bulkWrite it
\* issued (0: none issued).
processChunk(vs, ms, ps, chunkRows, existing, f, h) ==
  LET groups == productIDs(chunkRows, h)
      st == groupLoop([vendors |-> vs, manufacturers |-> ms, bulkOps |-> <<>>,
                       thrown |-> FALSE], groups, existing, 1, f, h)
  IN IF throwsTypeError(chunkRows)
     THEN [vendors |-> vs, manufacturers |-> ms, products |-> ps,
           threw |-> TRUE, ops |-> 0]
     ELSE IF st.thrown
     THEN [vendors |-> st.vendors, manufacturers |-> st.manufacturers,
           products |-> ps, threw |-> TRUE, ops |-> 0]
     ELSE IF Len(st.bulkOps) > 0
     THEN [vendors |-> st.vendors, manufacturers |-> st.manufacturers,
           products |-> bulkWrite(ps, st.bulkOps, 1,
                                  IF f.at = "bulkWrite" THEN f.i
                                  ELSE Len(st.bulkOps)),
           threw |-> f.at = "bulkWrite", ops |-> Len(st.bulkOps)]
     ELSE [vendors |-> st.vendors, manufacturers |-> st.manufacturers,
           products |-> ps, threw |-> FALSE, ops |-> 0]

\* ---------------------------------------------------------------- state
VARIABLES
  vendors, manufacturers, products,  \* the three collections
  file,         \* the rows of raw.txt
  status,       \* per run, the promise importProducts returned: idle (not
                \* called yet), running (pending), resolved, rejected;
                \* uncaught: an 'error' event nobody listens to was thrown,
                \* the promise is left pending and the process is gone
  request,      \* GET /product/start: none, pending, responded, failed
  pos,          \* per run, the rows the parser has emitted
  chunk,        \* per run, let chunk (line 89)
  paused,       \* per run, stream.pause() / stream.resume()
  endScheduled, \* per run, the stream has scheduled 'end': the last row was
                \* read from its buffer when end-of-file was already known
  endEmitted,   \* per run, 'end' was emitted
  call,         \* per run and handler, the processChunk invocation that the
                \* handler awaits
  overlapped,   \* history: two invocations were in progress at once
  done,         \* history: the processChunk invocations that ended
  log,          \* history: the findOne and save operations of the resolvers
  after1        \* history: the collections when the second run started

vars == <<vendors, manufacturers, products, file, status, request, pos, chunk,
          paused, endScheduled, endEmitted, call, overlapped, done, log,
          after1>>

store == <<vendors, manufacturers, products>>
driver == <<status, request, pos, chunk, paused, endScheduled, endEmitted>>

\* No invocation; otherwise an invocation holds the chunk it was given,
\* what its lookup returned, the group g its loop is at, the vendorId
\* resolved for that group, and its bulkOps.
NoCall ==
  [phase |-> "none", rows |-> <<>>, existing |-> <<>>, g |-> 0,
   vendorId |-> NoId, bulkOps |-> <<>>]

\* What the collections can hold before the first run of a behaviour:
\* nothing, or what an earlier import of a file holding FirstRow left, or
\* that with the product's docId missing (the data-integrity anomaly that
\* lines 254-257 provide for).
FirstRow ==
  Row("AcmeMed", <<"I","1">>, "M1", "Acme", "10", "Gauze", <<"C","1">>,
      "Sterile 4x4", <<"B">>, "5.50", "3")

Earlier ==
  processChunk(<<>>, <<>>, <<>>, <<[row |-> FirstRow, n |-> 0]>>, <<>>,
               NoFail, <<"earlier", "end">>)

InitialStores ==
  { <<<<>>, <<>>, <<>>>>,
    <<Earlier.vendors, Earlier.manufacturers, Earlier.products>>,
    <<Earlier.vendors, Earlier.manufacturers,
      [Earlier.products EXCEPT ![1].docId = NoId]>> }

InitDriver ==
  /\ status = [r \in Runs |-> "idle"] /\ request = "none"
  /\ pos = [r \in Runs |-> 0] /\ chunk = [r \in Runs |-> <<>>]
  /\ paused = [r \in Runs |-> FALSE]
  /\ endScheduled = [r \in Runs |-> FALSE]
  /\ endEmitted = [r \in Runs |-> FALSE]
  /\ call = [r \in Runs |-> [h \in Handlers |-> NoCall]]
  /\ overlapped = FALSE /\ done = {} /\ log = {} /\ after1 = <<>>

\* The files of at most MaxRows rows.
Files == UNION {[1..len -> RowPool] : len \in 0..MaxRows}

Init ==
  /\ \E s \in InitialStores :
       vendors = s[1] /\ manufacturers = s[2] /\ products = s[3]
  /\ file \in Files
  /\ InitDriver

\* ------------------------------------------------- importProducts
\* The process is running: no uncaught exception has ended it.
Alive == \A r \in Runs : status[r] # "uncaught"

\* No invocation of run r is in progress.
Idle(r) == \A h \in Handlers : call[r][h] = NoCall

\* Some invocation is in progress.
Busy == \E r \in Runs : ~Idle(r)

\* importProducts is called: by the @Cron timer (run "cron") or by
\* startImport, which awaits it (run "http"). The call makes a stream, an
\* empty chunk and a promise of its own, whatever other run is in progress.
\* Each of the two callers calls once in a behaviour.
Start(r) ==
  /\ Alive /\ status[r] = "idle"
  /\ status' = [status EXCEPT ![r] = "running"]
  /\ request' = IF r = "http" THEN "pending" ELSE request
  /\ pos' = [pos EXCEPT ![r] = 0]
  /\ chunk' = [chunk EXCEPT ![r] = <<>>]
  /\ paused' = [paused EXCEPT ![r] = FALSE]
  /\ endScheduled' = [endScheduled EXCEPT ![r] = FALSE]
  /\ endEmitted' = [endEmitted EXCEPT ![r] = FALSE]
  /\ UNCHANGED <<store, file, call, overlapped, done, log>>

\* startImport: await importProducts(); return {message}. A rejected
\* promise makes the await throw: the request fails without the message.
Respond ==
  /\ Alive
  /\ request = "pending" /\ status["http"] \in {"resolved", "rejected"}
  /\ request' = IF status["http"] = "resolved" THEN "responded" ELSE "failed"
  /\ UNCHANGED <<store, file, status, pos, chunk, paused, endScheduled,
                 endEmitted, call, overlapped, done, log, after1>>

\* processChunk(chunk) is called: the invocation is at its first await, or
\* it threw in the reduce and the handler's await is yet to see the
\* rejection.
Called(rows) ==
  [NoCall EXCEPT !.phase = IF throwsTypeError(rows) THEN "threw" ELSE "find",
                 !.rows = rows]

\* .on('data', async (row) => ...) of run r, up to its await. eof: this is
\* the last row and the stream read it when it already knew the file had
\* ended, so that it schedules 'end' for the next tick whether paused or
\* not.
OnData(r, eof) ==
  /\ Alive
  /\ status[r] = "running" /\ ~paused[r] /\ ~endScheduled[r] /\ ~endEmitted[r]
  /\ pos[r] < Len(file) /\ (eof => pos[r] + 1 = Len(file))
  /\ LET pushed == Append(chunk[r], [row |-> file[pos[r] + 1],
                                     n |-> pos[r] + 1]) IN
     /\ chunk' = [chunk EXCEPT ![r] = pushed]
     /\ IF Len(pushed) >= chunkSize
        THEN /\ paused' = [paused EXCEPT ![r] = TRUE]
             /\ call' = [call EXCEPT ![r]["data"] = Called(pushed)]
             /\ endScheduled' = [endScheduled EXCEPT ![r] = eof]
             /\ overlapped' = (overlapped \/ Busy)
        ELSE /\ ~eof
             /\ UNCHANGED <<paused, call, endScheduled, overlapped>>
  /\ pos' = [pos EXCEPT ![r] = @ + 1]
  /\ UNCHANGED <<store, file, status, request, endEmitted, done, log, after1>>

\* .on('end', async () => ...) of run r, up to its await, or to
\* resolve(null): the file was read to its end, and the stream is flowing
\* or had scheduled 'end' before it was paused.
OnEnd(r) ==
  /\ Alive
  /\ status[r] = "running" /\ ~endEmitted[r] /\ pos[r] = Len(file)
  /\ endScheduled[r] \/ ~paused[r]
  /\ endEmitted' = [endEmitted EXCEPT ![r] = TRUE]
  /\ IF Len(chunk[r]) > 0
     THEN /\ call' = [call EXCEPT ![r]["end"] = Called(chunk[r])]
          /\ overlapped' = (overlapped \/ Busy)
          /\ UNCHANGED status
     ELSE /\ status' = [status EXCEPT ![r] = "resolved"]
          /\ UNCHANGED <<call, overlapped>>
  /\ UNCHANGED <<store, file, request, pos, chunk, paused, endScheduled, done,
                 log, after1>>

\* .on('error', ...) of the stream that pipe() returns, the csv parser: the
\* parser fails on what it is given, at any time before it ends. The
\* handler rejects; the parser emits nothing more, and an invocation in
\* progress goes on.
ParserError(r) ==
  /\ Alive
  /\ status[r] = "running" /\ ~endScheduled[r] /\ ~endEmitted[r]
  /\ status' = [status EXCEPT ![r] = "rejected"]
  /\ UNCHANGED <<store, file, request, pos, chunk, paused, endScheduled,
                 endEmitted, call, overlapped, done, log, after1>>

\* The file stream createReadStream returns emits 'error' (the file cannot
\* be opened, or a read fails). pipe() does not forward errors and no
\* listener is attached to this stream: the event is thrown as an uncaught
\* exception, the promise is neither resolved nor rejected, and the process
\* ends with every run and every invocation in progress.
FileError(r) ==
  /\ Alive
  /\ status[r] = "running" /\ ~endScheduled[r] /\ ~endEmitted[r]
  /\ status' = [status EXCEPT ![r] = "uncaught"]
  /\ UNCHANGED <<store, file, request, pos, chunk, paused, endScheduled,
                 endEmitted, call, overlapped, done, log, after1>>

\* Mutant: the catch rethrows, so that a failed chunk rejects the run and
\* leaves the stream paused.
ContinueRethrows(r, h, threw, ops) ==
  /\ done' = done \cup {[r |-> r, h |-> h, n |-> call[r][h].rows[1].n,
                         threw |-> threw, ops |-> ops]}
  /\ call' = [call EXCEPT ![r][h] = NoCall]
  /\ IF threw
     THEN /\ status' = [status EXCEPT ![r] = "rejected"]
          /\ UNCHANGED <<chunk, paused>>
     ELSE IF h = "data"
     THEN /\ chunk' = [chunk EXCEPT ![r] = <<>>]
          /\ paused' = [paused EXCEPT ![r] = FALSE]
          /\ UNCHANGED status
     ELSE /\ status' = [status EXCEPT ![r] = "resolved"]
          /\ UNCHANGED <<chunk, paused>>
  /\ UNCHANGED <<file, request, pos, endScheduled, endEmitted, overlapped,
                 log, after1>>

\* What follows await processChunk(chunk) in handler h of run r, whether
\* the invocation returned or threw (the catch only logs): the 'data'
\* handler empties the chunk and resumes the stream, the 'end' handler
\* resolves the promise (which does nothing to a promise already settled).
Continue(r, h, threw, ops) ==
  /\ done' = done \cup {[r |-> r, h |-> h, n |-> call[r][h].rows[1].n,
                         threw |-> threw, ops |-> ops]}
  /\ call' = [call EXCEPT ![r][h] = NoCall]
  /\ IF h = "data"
     THEN /\ chunk' = [chunk EXCEPT ![r] = <<>>]
          /\ paused' = [paused EXCEPT ![r] = FALSE]
          /\ UNCHANGED status
     ELSE /\ status' = [status EXCEPT ![r] =
                          IF @ = "running" THEN "resolved" ELSE @]
          /\ UNCHANGED <<chunk, paused>>
  /\ UNCHANGED <<file, request, pos, endScheduled, endEmitted, overlapped,
                 log, after1>>

\* ------------------------------- processChunk, store operation by operation
\* The groups of the invocation of handler h of run r, and the one its loop
\* is at.
Groups(r, h) == productIDs(call[r][h].rows, <<r, h>>)
Group(r, h) == Groups(r, h)[call[r][h].g]

\* The invocation goes on: the handler that awaits it does nothing yet.
Awaited ==
  UNCHANGED <<file, status, request, pos, chunk, paused, endScheduled,
              endEmitted, overlapped, done, after1>>

\* A findOne or a save of a resolver, for the group of row n.
Logged(r, h, of, key, op) ==
  log \cup {[r |-> r, h |-> h, n |-> Group(r, h).row.n, of |-> of,
             key |-> key, op |-> op]}

\* The handler's await of a processChunk that threw in the reduce: no store
\* operation was issued.
Rejects(r, h) ==
  /\ Alive /\ call[r][h].phase = "threw"
  /\ Continue(r, h, TRUE, 0)
  /\ UNCHANGED store

\* await this.productModel.find(...) returns: the loop starts, or, with no
\* group, processChunk returns (no bulkWrite for an empty bulkOps).
Find(r, h) ==
  /\ Alive /\ call[r][h].phase = "find"
  /\ IF Len(Groups(r, h)) = 0
     THEN Continue(r, h, FALSE, 0)
     ELSE /\ call' = [call EXCEPT
                 ![r][h].existing = findExisting(products, Groups(r, h)),
                 ![r][h].g = 1,
                 ![r][h].phase = "checkVendor"]
          /\ UNCHANGED log /\ Awaited
  /\ UNCHANGED store

\* await this.productModel.find(...) throws.
FindFails(r, h) ==
  /\ Alive /\ call[r][h].phase = "find"
  /\ Continue(r, h, TRUE, 0)
  /\ UNCHANGED store

\* checkVendor: await this.vendorModel.findOne(...).exec() returns.
VendorFindOne(r, h) ==
  /\ Alive /\ call[r][h].phase = "checkVendor"
  /\ LET siteSource == Group(r, h).row.row.SiteSource
         i == findOneVendor(vendors, siteSource)
     IN /\ call' = [call EXCEPT
              ![r][h].vendorId = IF i = 0 THEN @ ELSE vendors[i].vendorId,
              ![r][h].phase = IF i = 0 THEN "vendorSave"
                              ELSE "ensureManufacturer"]
        /\ log' = Logged(r, h, "vendor", siteSource,
                         IF i = 0 THEN "missed" ELSE "found")
  /\ UNCHANGED store /\ Awaited

\* checkVendor: await vendor.save() returns.
VendorSave(r, h) ==
  /\ Alive /\ call[r][h].phase = "vendorSave"
  /\ LET siteSource == Group(r, h).row.row.SiteSource
         newId == [k |-> "vendor", n |-> Group(r, h).row.n, h |-> <<r, h>>]
     IN /\ vendors' = saveVendor(vendors, siteSource, newId)
        /\ call' = [call EXCEPT ![r][h].vendorId = newId,
                                ![r][h].phase = "ensureManufacturer"]
        /\ log' = Logged(r, h, "vendor", siteSource, "save")
  /\ UNCHANGED <<manufacturers, products>> /\ Awaited

\* The end of the loop body: bulkOps.push(...), and the next group or the
\* bulkWrite.
Pushed(r, h, manufacturerId) ==
  [call EXCEPT
     ![r][h].bulkOps = Append(@, bulkOp(Group(r, h), call[r][h].existing,
                                        call[r][h].vendorId, manufacturerId,
                                        <<r, h>>)),
     ![r][h].g = @ + 1,
     ![r][h].phase = IF call[r][h].g = Len(Groups(r, h)) THEN "bulkWrite"
                     ELSE "checkVendor"]

\* Mutant: the name of a manufacturer found is brought up to date.
ManufacturerFindOneRenames(r, h) ==
  /\ Alive /\ call[r][h].phase = "ensureManufacturer"
  /\ LET manufacturerId == Group(r, h).row.row.ManufacturerID
         i == findOneManufacturer(manufacturers, manufacturerId)
     IN /\ call' = IF i = 0
                   THEN [call EXCEPT ![r][h].phase = "manufacturerSave"]
                   ELSE Pushed(r, h, manufacturers[i].manufacturerId)
        /\ log' = Logged(r, h, "manufacturer", manufacturerId,
                         IF i = 0 THEN "missed" ELSE "found")
        /\ manufacturers' =
             IF i = 0 THEN manufacturers
             ELSE [manufacturers EXCEPT
                     ![i].name = Group(r, h).row.row.ManufacturerName]
  /\ UNCHANGED <<vendors, products>> /\ Awaited

\* ensureManufacturer: await this.manufacturerModel.findOne(...).exec()
\* returns.
ManufacturerFindOne(r, h) ==
  /\ Alive /\ call[r][h].phase = "ensureManufacturer"
  /\ LET manufacturerId == Group(r, h).row.row.ManufacturerID
         i == findOneManufacturer(manufacturers, manufacturerId)
     IN /\ call' = IF i = 0
                   THEN [call EXCEPT ![r][h].phase = "manufacturerSave"]
                   ELSE Pushed(r, h, manufacturers[i].manufacturerId)
        /\ log' = Logged(r, h, "manufacturer", manufacturerId,
                         IF i = 0 THEN "missed" ELSE "found")
  /\ UNCHANGED store /\ Awaited

\* ensureManufacturer: await manufacturer.save() returns.
ManufacturerSave(r, h) ==
  /\ Alive /\ call[r][h].phase = "manufacturerSave"
  /\ LET manufacturerId == Group(r, h).row.row.ManufacturerID IN
     /\ manufacturers' = saveManufacturer(manufacturers, manufacturerId,
                                          Group(r, h).row.row.ManufacturerName)
     /\ call' = Pushed(r, h, manufacturerId)
     /\ log' = Logged(r, h, "manufacturer", manufacturerId, "save")
  /\ UNCHANGED <<vendors, products>> /\ Awaited

\* A findOne or a save of a resolver throws (the store is unavailable):
\* processChunk throws, with the bulkOps it had built.
ResolveFails(r, h) ==
  /\ Alive
  /\ call[r][h].phase \in {"checkVendor", "vendorSave", "ensureManufacturer",
                           "manufacturerSave"}
  /\ Continue(r, h, TRUE, 0)
  /\ UNCHANGED store

\* await this.productModel.bulkWrite(bulkOps) returns, or throws after the
\* first `applied` of its operations took effect.
BulkWrite(r, h, applied) ==
  /\ Alive /\ call[r][h].phase = "bulkWrite"
  /\ applied \in 0..Len(call[r][h].bulkOps)
  /\ products' = bulkWrite(products, call[r][h].bulkOps, 1, applied)
  /\ Continue(r, h, applied < Len(call[r][h].bulkOps),
              Len(call[r][h].bulkOps))
  /\ UNCHANGED <<vendors, manufacturers>>

\* A store operation of the invocation returns.
Answers(r, h) ==
  \/ Find(r, h)
  \/ VendorFindOne(r, h)
  \/ VendorSave(r, h)
  \/ ManufacturerFindOne(r, h)
  \/ ManufacturerSave(r, h)
  \/ BulkWrite(r, h, Len(call[r][h].bulkOps))

\* A store operation of the invocation throws.
Fails(r, h) ==
  \/ FindFails(r, h)
  \/ ResolveFails(r, h)
  \/ \E applied \in 0..(Len(call[r][h].bulkOps) - 1) : BulkWrite(r, h, applied)

\* The runs started so far.
Started == {r \in Runs : status[r] # "idle"}

Next ==
  \/ \E r \in Runs : /\ (Cardinality(Started) + 1) * Len(file) <= MaxRows
                     /\ Start(r) /\ UNCHANGED after1
  \/ Respond
  \/ \E r \in Runs, eof \in BOOLEAN : OnData(r, eof)
  \/ \E r \in Runs : OnEnd(r)
  \/ \E r \in Runs : ParserError(r)
  \/ \E r \in Runs : FileError(r)
  \/ \E r \in Runs, h \in Handlers : Rejects(r, h)
  \/ \E r \in Runs, h \in Handlers : Answers(r, h)
  \/ \E r \in Runs, h \in Handlers : Fails(r, h)

Spec == Init /\ [][Next]_vars

\* The bulkWrite that the 'end' handler of run r awaits settles: the step
\* that BulkWrite(r, "end", applied) takes, for whichever `applied`.
Settles(r) ==
  /\ Alive /\ call[r]["end"].phase = "bulkWrite"
  /\ call' = [call EXCEPT ![r]["end"] = NoCall]

\* The store operations that the 'end' handler of each run awaits settle
\* (each returns or throws), and its await sees a processChunk that threw. Nothing is assumed of the stream or of the
\* 'data' handler.
SpecFair ==
  /\ Spec
  /\ \A r \in Runs :
       /\ WF_vars(\/ Rejects(r, "end")
                  \/ FindFails(r, "end") \/ ResolveFails(r, "end")
                  \/ Find(r, "end")
                  \/ VendorFindOne(r, "end") \/ VendorSave(r, "end")
                  \/ ManufacturerFindOne(r, "end")
                  \/ ManufacturerSave(r, "end"))
       /\ WF_call(Settles(r))

\* ------------------------------------- the same file imported twice
InitTwice ==
  /\ vendors = <<>> /\ manufacturers = <<>> /\ products = <<>>
  /\ file \in Files
  /\ InitDriver

\* Two runs in succession over `file`, no store operation failing: the
\* timer's run, then the request's run, which starts when the first has
\* resolved and none of its invocations is still in progress.
NextTwice ==
  \/ Start("cron") /\ UNCHANGED after1
  \/ /\ status["cron"] = "resolved" /\ Idle("cron")
     /\ Start("http") /\ after1' = store
  \/ Respond
  \/ \E r \in Runs, eof \in BOOLEAN : OnData(r, eof)
  \/ \E r \in Runs : OnEnd(r)
  \/ \E r \in Runs, h \in Handlers : Rejects(r, h)
  \/ \E r \in Runs, h \in Handlers : Answers(r, h)

SpecTwice == InitTwice /\ [][NextTwice]_vars

\* Both runs have resolved and none of their invocations is in progress.
SecondRunDone == \A r \in Runs : status[r] = "resolved" /\ Idle(r)

\* ------------------------------------------- one run over several chunks
\* One run over a file of up to MaxFile rows, so that the rows of a product
\* fall into different chunks; no store operation fails and the stream is
\* read to its end.
FilesRun == UNION {[1..len -> RowPool] : len \in 0..MaxFile}

InitRun ==
  /\ \E s \in InitialStores :
       vendors = s[1] /\ manufacturers = s[2] /\ products = s[3]
  /\ file \in FilesRun
  /\ InitDriver

NextRun ==
  \/ Start("cron") /\ UNCHANGED after1
  \/ \E eof \in BOOLEAN : OnData("cron", eof)
  \/ OnEnd("cron")
  \/ \E h \in Handlers : Rejects("cron", h)
  \/ \E h \in Handlers : Answers("cron", h)

SpecRun == InitRun /\ [][NextRun]_vars

\* ---------------------------------------------------------------- claims
Range(seq) == {seq[i] : i \in 1..Len(seq)}

Skus(variants) == {variants[i].sku : i \in 1..Len(variants)}

\* C1: importing the same file twice in succession, no store operation
\* failing, leaves the three collections after the second run equal to the
\* collections after the first run.
C1_Idempotence == SecondRunDone => store = after1

\* C2: no stored Product holds two variants with the same sku.
C2_NoDuplicateSku ==
  \A i \in 1..Len(products) :
    \A a, b \in 1..Len(products[i].variants) :
      a # b => products[i].variants[a].sku # products[i].variants[b].sku

\* C9: startImport answers as soon as the run has started: the run that the
\* request started is not in progress, or yet to complete, with the request
\* still unanswered.
C9_RespondsImmediately == ~(request = "pending" /\ status["http"] = "running")

\* C10: within a run at most one processChunk invocation is in progress at
\* any time: the 'end' handler does not start while a chunk is being
\* processed.
C10_OneChunkAtATime ==
  \A r \in Runs : ~(call[r]["data"] # NoCall /\ call[r]["end"] # NoCall)

\* C8: a failed chunk does not stop the driver, is never handed to
\* processChunk again in its run, and no chunk's bulkWrite is issued more
\* than once in a run.
C8_BatchIsolation ==
  /\ \A r \in Runs :
       (status[r] = "running" /\ call[r]["data"] = NoCall /\ ~endEmitted[r])
         => ~paused[r]
  /\ \A r \in Runs, h \in Handlers : call[r][h] # NoCall =>
       \A d \in done : (d.r = r /\ d.threw) => d.n # call[r][h].rows[1].n
  /\ \A d1, d2 \in done :
       (d1.r = d2.r /\ d1.n = d2.n /\ d1.ops > 0 /\ d2.ops > 0) => d1 = d2

\* The processChunk invocation of handler h of run r returns normally in
\* this step: its bulkWrite returns.
Returned(r, h) ==
  /\ call[r][h].phase = "bulkWrite" /\ call'[r][h] = NoCall
  /\ \E d \in done' \ done : ~d.threw

\* The stored document of a productID.
ProductOf(coll, productID) ==
  coll[IndexOf(coll, "productID", productID)]

Differ(a, b) ==
  a.price # b.price \/ a.available # b.available \/ a.description # b.description

LastWithSku(variants, sku) ==
  variants[LastIndexOf(variants, "sku", sku)]

\* The variant held for `sku` after the incoming variants from the i-th on
\* were met in row order, `held` being held before.
RECURSIVE HeldAfter(_, _, _, _)
HeldAfter(held, incoming, i, sku) ==
  IF i > Len(incoming) THEN held
  ELSE HeldAfter(IF incoming[i].sku = sku /\ Differ(held, incoming[i])
                 THEN incoming[i] ELSE held,
                 incoming, i + 1, sku)

\* The groups of an invocation whose product its lookup found: the
\* products it updates.
FoundGroups(r, h) ==
  {g \in Range(Groups(r, h)) : existingHas(call[r][h].existing, g.productID)}

\* The variants stored for a group's product, as the invocation's lookup
\* returned them.
StoredFor(r, h, g) == existingGet(call[r][h].existing, g.productID).variants

\* C3 as claimed: on an update, for every incoming variant and stored
\* variant of one sku, the stored one is replaced by the incoming one iff
\* price, available or description differ between the two, and is kept
\* otherwise.
C3_AsClaimed ==
  [][\A r \in Runs, h \in Handlers : Returned(r, h) =>
       \A g \in FoundGroups(r, h) :
         LET result == Range(ProductOf(products', g.productID).variants)
         IN \A s \in Range(StoredFor(r, h, g)), v \in Range(g.variants) :
              s.sku = v.sku =>
                IF Differ(s, v) THEN v \in result /\ s \notin result
                ELSE s \in result]_vars

\* C3 as amended: on an update, for every sku that is both stored and
\* incoming, the product ends with exactly one variant of that sku: the
\* one held after meeting the incoming variants of the sku in row order,
\* each replacing the held one iff price, available or description differ
\* from the held one, starting from the stored variant (the last stored
\* with that sku); a held variant that is not replaced keeps every field,
\* its generated id included.
C3_ChangeDetection ==
  [][\A r \in Runs, h \in Handlers : Returned(r, h) =>
       \A g \in FoundGroups(r, h) :
         LET stored == StoredFor(r, h, g)
             result == ProductOf(products', g.productID).variants
         IN \A sku \in Skus(stored) \cap Skus(g.variants) :
              /\ Cardinality({i \in 1..Len(result) : result[i].sku = sku}) = 1
              /\ LastWithSku(result, sku) =
                   HeldAfter(LastWithSku(stored, sku), g.variants, 1, sku)]_vars

\* C3 witness: the stored variant of an earlier import (price 5.50) was
\* replaced by an incoming variant of the same sku with price 12.
C3_Witness ==
  /\ \E d \in done : ~d.threw /\ d.ops > 0
  /\ \E i \in 1..Len(products) : \E j \in 1..Len(products[i].variants) :
       LET v == products[i].variants[j] IN
       v.sku = <<"I", "1", "C", "1", "B">> /\ v.price = 1200 /\ v.id.n > 0
  /\ Earlier.products[1].variants[1].price = 550
  /\ \E p \in Range(products) : p.docId = Earlier.products[1].docId

\* The lookup of the invocation would return now what it returned: no
\* other invocation has written a product of its chunk since.
Fresh(r, h) == findExisting(products, Groups(r, h)) = call[r][h].existing

\* C4: no product ever disappears; an invocation that returns leaves, for
\* every product it updates, exactly the skus that were stored for it and
\* the skus of the chunk's rows for that productID; and no sku of a stored
\* product disappears in any step, unless it is the write of an invocation
\* that looked the products up before another invocation wrote them.
C4_NoDeletion ==
  [][/\ Len(products') >= Len(products)
     /\ \A i \in 1..Len(products) :
          products'[i].productID = products[i].productID
     /\ \A r \in Runs, h \in Handlers : Returned(r, h) =>
          \A g \in FoundGroups(r, h) :
            Skus(ProductOf(products', g.productID).variants) =
              Skus(StoredFor(r, h, g)) \cup Skus(g.variants)
     /\ \/ \E r \in Runs, h \in Handlers :
             /\ call[r][h].phase = "bulkWrite" /\ call'[r][h] = NoCall
             /\ ~Fresh(r, h)
        \/ \A i \in 1..Len(products) :
             Skus(products[i].variants) \subseteq Skus(products'[i].variants)]_vars

\* C4 witness: a product stored with one sku was updated by a chunk that
\* brought another sku, and holds both; chunks were processed one at a time.
C4_Witness ==
  /\ ~overlapped
  /\ \E d \in done : ~d.threw /\ d.ops > 0
  /\ \E p \in Range(products) :
       /\ \E v \in Range(p.variants) : v.id.n = 0
       /\ \E v \in Range(p.variants) : v.id.n > 0
       /\ Cardinality(Skus(p.variants)) = 2

\* The SiteSource values of the valid rows of a productID.
SiteSourcesOf(productID) ==
  {r.SiteSource : r \in {x \in RowPool : x.ProductID = productID /\ x.ItemID # <<>>}}

\* C5: as long as no two invocations were in progress at once, there is one
\* Vendor per name and one Manufacturer per manufacturerId, and every
\* product refers to the one Vendor of its rows' SiteSource and to a stored
\* Manufacturer.
C5_ReferenceReuse ==
  ~overlapped =>
    /\ \A i, j \in 1..Len(vendors) :
         vendors[i].name = vendors[j].name => i = j
    /\ \A i, j \in 1..Len(manufacturers) :
         manufacturers[i].manufacturerId = manufacturers[j].manufacturerId => i = j
    /\ \A p \in Range(products) :
         /\ \E v \in Range(vendors) :
              v.vendorId = p.vendorId /\ v.name \in SiteSourcesOf(p.productID)
         /\ \E m \in Range(manufacturers) : m.manufacturerId = p.manufacturerId

\* C5 witness: two invocations, one after the other, each resolved a
\* vendor and wrote, and the Vendor collection holds one record.
C5_Witness ==
  /\ ~overlapped
  /\ Cardinality({d \in done : ~d.threw /\ d.ops > 0}) >= 2
  /\ Len(vendors) = 1 /\ Len(manufacturers) = 1

UniqueProductIDs(coll) ==
  \A i, j \in 1..Len(coll) : coll[i].productID = coll[j].productID => i = j

\* C6: at most one Product per productID; a stored Product's docId never
\* changes (a record stored without one stays without), and a Product that
\* is inserted gets a docId.
C6_OneProductFixedDocId ==
  /\ UniqueProductIDs(products)
  /\ [][/\ UniqueProductIDs(products')
        /\ Len(products') >= Len(products)
        /\ \A i \in 1..Len(products) : products'[i].docId = products[i].docId
        /\ \A i \in (Len(products) + 1)..Len(products') :
             products'[i].docId.k = "doc"]_vars

\* C6 witness: a record stored without a docId was updated by a chunk (it
\* holds a variant built in this behaviour) and is still without one.
C6_Witness ==
  \E p \in Range(products) :
    /\ p.docId = NoId
    /\ \E v \in Range(p.variants) : v.id.n > 0

ValidRow(sr) == sr.row.ProductID # "" /\ sr.row.ItemID # <<>>

ValidOnly(chunkRows) == SelectSeq(chunkRows, ValidRow)

\* Row n of the file has both ProductID and ItemID (0: the row of the
\* earlier import).
ValidNumber(n) ==
  n = 0 \/ (n \in 1..Len(file) /\ file[n].ProductID # "" /\ file[n].ItemID # <<>>)

\* The values of a field over the valid rows of the file and FirstRow.
ValidValues(field) ==
  {FirstRow[field]} \cup {file[n][field] : n \in {m \in 1..Len(file) : ValidNumber(m)}}

\* C7: the groups of an invocation, which are all that its later steps
\* read of the chunk, are those of the chunk without its rows that miss
\* ProductID or ItemID, and so is its lookup, and the grouping throws only
\* if it throws without them; no group, variant, vendor,
\* manufacturer, findOne or save comes from such a row; and the invocation
\* of a chunk of only such rows ends at the lookup, without a bulkWrite and
\* with the collections as they were.
C7_MalformedRows ==
  /\ [](/\ \A r \in Runs, h \in Handlers : call[r][h] # NoCall =>
             /\ Groups(r, h) = productIDs(ValidOnly(call[r][h].rows), <<r, h>>)
             /\ call[r][h].phase = "threw" <=>
                  throwsTypeError(ValidOnly(call[r][h].rows))
             /\ \A g \in Range(Groups(r, h)) :
                  /\ ValidRow(g.row)
                  /\ \A v \in Range(g.variants) : ValidNumber(v.id.n)
        /\ \A e \in log : ValidNumber(e.n)
        /\ \A v \in Range(vendors) : v.name \in ValidValues("SiteSource")
        /\ \A m \in Range(manufacturers) :
             m.manufacturerId \in ValidValues("ManufacturerID")
        /\ \A p \in Range(products) :
             \A v \in Range(p.variants) : ValidNumber(v.id.n))
  /\ [][\A r \in Runs, h \in Handlers :
          (call[r][h].phase = "find" /\ call'[r][h] # call[r][h]) =>
            LET valid == ValidOnly(call[r][h].rows) IN
            IF valid = <<>>
            THEN /\ call'[r][h] = NoCall /\ UNCHANGED store
                 /\ \A d \in done' \ done : d.ops = 0
            ELSE \/ \E d \in done' \ done : d.threw
                 \/ call'[r][h].existing =
                      findExisting(products, productIDs(valid, <<r, h>>))]_vars

\* C7 witness: the chunk of rows 1 and 2 was processed on empty
\* collections and produced one product with one variant, built from row
\* 2: row 1 was dropped.
C7_Witness ==
  /\ \E d \in done : d.n = 1 /\ ~d.threw /\ d.ops = 1
  /\ ~ValidNumber(1)
  /\ Len(products) = 1 /\ Len(products[1].variants) = 1
  /\ products[1].variants[1].id.n = 2
  /\ Len(vendors) = 1

\* C11: a failure of the underlying file stream (the source cannot be
\* opened, or a read fails) aborts the run with the promise of
\* importProducts rejected: no such failure leaves the promise unsettled
\* behind an uncaught exception.
C11_ReadFailureRejects == \A r \in Runs : status[r] # "uncaught"

\* C12: a failure raised inside processChunk never makes the run fail: the
\* step in which a handler's invocation ends by throwing leaves the promise
\* as it was and the stream resumed with an empty chunk ('data' handler),
\* or resolves the promise ('end' handler); and once 'end' was emitted the
\* promise is eventually resolved, whichever invocations threw, as long as
\* the process runs.
C12_ChunkFailureContained ==
  /\ [][\A d \in done' \ done : d.threw =>
          IF d.h = "data"
          THEN /\ status'[d.r] = status[d.r]
               /\ ~paused'[d.r] /\ chunk'[d.r] = <<>>
          ELSE status'[d.r] = "resolved"]_vars
  /\ \A r \in Runs : endEmitted[r] ~> (status[r] = "resolved" \/ ~Alive)

\* A run resolved although its full chunk failed.
C12_Witness ==
  \E r \in Runs :
    /\ status[r] = "resolved" /\ ~overlapped
    /\ \E d \in done : d.r = r /\ d.threw /\ d.h = "data" /\ d.n = 1
    /\ pos[r] = chunkSize

\* The number of documents of a collection whose field has the value.
Count(coll, field, value) ==
  Cardinality({i \in 1..Len(coll) : coll[i][field] = value})

Keys(coll, field) == {coll[i][field] : i \in 1..Len(coll)}

\* The save operations for a key: all of them, and those of one invocation.
Saves(of, key) == {e \in log : e.of = of /\ e.key = key /\ e.op = "save"}

SavesOf(r, h, of, key) == {e \in Saves(of, key) : e.r = r /\ e.h = h}

\* The collection of a kind of reference entity, and its key field.
Stored(of) == IF of = "vendor" THEN vendors ELSE manufacturers

KeyField(of) == IF of = "vendor" THEN "name" ELSE "manufacturerId"

\* C13, as claimed: with two runs concurrent, every reachable state holds at
\* most one Vendor per name and at most one Manufacturer per manufacturerId.
C13_AsClaimed ==
  /\ \A name \in Keys(vendors, "name") : Count(vendors, "name", name) = 1
  /\ \A id \in Keys(manufacturers, "manufacturerId") :
       Count(manufacturers, "manufacturerId", id) = 1

\* C13, amended: a processChunk invocation creates at most one Vendor per
\* name and at most one Manufacturer per manufacturerId, and none for a
\* key whose record was stored when the invocation looked it up: a save
\* follows a findOne of the same invocation and group that found nothing,
\* and findOne finds nothing only when no record of the key is stored. A
\* key has more than one record only when invocations were in progress at
\* once, and then one record per invocation that saved it.
C13_OnePerInvocation ==
  /\ [](\A of \in {"vendor", "manufacturer"} :
          \A key \in Keys(Stored(of), KeyField(of)) :
            /\ \A r \in Runs, h \in Handlers :
                 Cardinality(SavesOf(r, h, of, key)) <= 1
            /\ Count(Stored(of), KeyField(of), key) > 1 =>
                 /\ overlapped
                 /\ Count(Stored(of), KeyField(of), key)
                      = Cardinality({<<e.r, e.h>> : e \in Saves(of, key)}))
  /\ [][\A e \in log' \ log :
          /\ e.op = "missed" => Count(Stored(e.of), KeyField(e.of), e.key) = 0
          /\ e.op = "found" => Count(Stored(e.of), KeyField(e.of), e.key) > 0
          /\ e.op = "save" => [e EXCEPT !.op = "missed"] \in log]_vars

\* The invocations of the two runs have returned; a manufacturer was
\* created twice, once by each run, and the vendor once: the other run
\* found it.
C13_Witness ==
  /\ \A r \in Runs : \E d \in done : d.r = r /\ ~d.threw /\ d.ops > 0
  /\ \E id \in Keys(manufacturers, "manufacturerId") :
       /\ Count(manufacturers, "manufacturerId", id) = 2
       /\ \A r \in Runs : \E e \in Saves("manufacturer", id) : e.r = r
  /\ \E name \in Keys(vendors, "name") :
       /\ Count(vendors, "name", name) = 1
       /\ Cardinality(Saves("vendor", name)) = 1
       /\ \E e \in log : e.of = "vendor" /\ e.key = name /\ e.op = "found"

\* The first run over a file of one row, both the ProductID and the ItemID
\* present, has resolved, and the second has not started.
OneValidRowImported ==
  /\ Len(file) = 1 /\ status["cron"] = "resolved" /\ Idle("cron")
  /\ status["http"] = "idle"
  /\ file[1].ProductID # "" /\ file[1].ItemID # <<>>

\* C14: from empty collections, a run over a file of one valid row leaves
\* exactly one Vendor named after the row's SiteSource, one Manufacturer
\* with its ManufacturerID and ManufacturerName, and one Product with its
\* ProductID and ProductName and one variant: sku the concatenation of
\* ItemID, ManufacturerItemCode and PKG, price the parsed UnitPrice (0 when
\* unparsable), available iff QuantityOnHand parses to an integer above 0,
\* description the ItemDescription.
C14_EndToEndCreation ==
  OneValidRowImported =>
    LET row == file[1] IN
    /\ Len(vendors) = 1 /\ vendors[1].name = row.SiteSource
    /\ manufacturers = <<[manufacturerId |-> row.ManufacturerID,
                          name |-> row.ManufacturerName]>>
    /\ Len(products) = 1
    /\ products[1].productID = row.ProductID
    /\ products[1].name = row.ProductName
    /\ Len(products[1].variants) = 1
    /\ LET v == products[1].variants[1] IN
       /\ v.sku = row.ItemID \o row.ManufacturerItemCode \o row.PKG
       /\ v.price = IF parseFloat(row.UnitPrice) = NaN THEN 0
                    ELSE parseFloat(row.UnitPrice)
       /\ v.available = (parseInt(row.QuantityOnHand) \in 1..1000)
       /\ v.description = row.ItemDescription

\* The numbers of the rows of a chunk.
RowNumbers(chunkRows) == {chunkRows[i].n : i \in 1..Len(chunkRows)}

\* C15: every row is handed to processChunk exactly once in a run: no chunk
\* in progress holds a row of another chunk in progress or of a chunk
\* already processed in the run; a chunk handed over by the 'data' handler
\* holds chunkSize rows and the final one, handed over at 'end', fewer; and
\* when the run has resolved, the rows of the file were processed in
\* chunks of chunkSize from the first row on, each chunk once.
C15_Chunking ==
  \A r \in Runs :
    /\ \A h \in Handlers : call[r][h] # NoCall =>
         /\ \A d \in done : d.r = r => d.n \notin RowNumbers(call[r][h].rows)
         /\ \A g \in Handlers \ {h} :
              RowNumbers(call[r][g].rows) \cap RowNumbers(call[r][h].rows) = {}
    /\ call[r]["data"] # NoCall => Len(call[r]["data"].rows) = chunkSize
    /\ call[r]["end"] # NoCall => Len(call[r]["end"].rows) \in 1..(chunkSize - 1)
    /\ (status[r] = "resolved" /\ Idle(r)) =>
         \A n \in 1..Len(file) :
           Cardinality({d \in done : d.r = r /\ d.n = n}) =
             IF (n - 1) % chunkSize = 0 THEN 1 ELSE 0

\* The findOne operations of the resolvers.
Lookups == {e \in log : e.op \in {"found", "missed"}}

\* C16: within a run, a vendor or manufacturer key that was resolved once
\* is answered from the cache afterwards: no run looks the same key up in
\* the store twice.
C16_LookupOncePerKey ==
  \A e1, e2 \in Lookups :
    (e1.r = e2.r /\ e1.of = e2.of /\ e1.key = e2.key) => e1 = e2

SkuSeq(variants) == [i \in 1..Len(variants) |-> variants[i].sku]

\* The skus of `skus` from the i-th on that are not in `seen`, each once, in
\* the order of their first occurrence.
RECURSIVE NewSkus(_, _, _)
NewSkus(skus, i, seen) ==
  IF i > Len(skus) THEN <<>>
  ELSE IF skus[i] \in seen THEN NewSkus(skus, i + 1, seen)
  ELSE <<skus[i]>> \o NewSkus(skus, i + 1, seen \cup {skus[i]})

\* C17: when processChunk has updated an existing product, the variant list
\* is made of the previously stored variants in their previous order (a
\* replaced variant in the place of the one it replaces), followed by the
\* variants of new skus in the order of their first occurrence in the chunk.
C17_MergeOrder ==
  [][\A r \in Runs, h \in Handlers : Returned(r, h) =>
       \A g \in FoundGroups(r, h) :
         SkuSeq(ProductOf(products', g.productID).variants) =
           SkuSeq(StoredFor(r, h, g))
             \o NewSkus(SkuSeq(g.variants), 1, Skus(StoredFor(r, h, g)))]_vars

\* The ProductIDs of the valid rows of a chunk.
ValidProductIDs(chunkRows) ==
  {chunkRows[i].row.ProductID :
     i \in {j \in 1..Len(chunkRows) : ValidRow(chunkRows[j])}}

\* The bulkWrites issued in run r for the chunk that starts at row n: those
\* of the invocations that ended, and those awaited.
WritesOf(r, n) ==
  Cardinality({d \in done : d.r = r /\ d.n = n /\ d.ops > 0})
  + Cardinality({h \in Handlers : /\ call[r][h].phase = "bulkWrite"
                                  /\ call[r][h].rows[1].n = n})

\* C18: per chunk of a run the products are written by a single bulkWrite,
\* which holds one operation per distinct ProductID of the chunk's valid
\* rows and is awaited only when every group was resolved; when the
\* grouping, the lookup or the resolution of some group of the chunk
\* failed, no bulkWrite is issued for that chunk and the products are as
\* they were, whatever groups had been resolved; and no other step changes
\* the products.
C18_SingleBatchedWrite ==
  /\ [](\A r \in Runs, n \in 1..MaxFile :
          /\ WritesOf(r, n) <= 1
          /\ (\E d \in done : d.r = r /\ d.n = n /\ d.threw /\ d.ops = 0) =>
               WritesOf(r, n) = 0)
  /\ [](\A r \in Runs, h \in Handlers : call[r][h].phase = "bulkWrite" =>
          /\ call[r][h].g = Len(Groups(r, h)) + 1
          /\ Len(call[r][h].bulkOps) =
               Cardinality(ValidProductIDs(call[r][h].rows))
          /\ \A productID \in ValidProductIDs(call[r][h].rows) :
               Cardinality({i \in 1..Len(call[r][h].bulkOps) :
                  call[r][h].bulkOps[i].filter.productID = productID}) = 1)
  /\ [][/\ \A r \in Runs, h \in Handlers :
             (call[r][h] # NoCall /\ call'[r][h] = NoCall) =>
               \A d \in done' \ done :
                 /\ d.ops \in {0, Cardinality(ValidProductIDs(call[r][h].rows))}
                 /\ ~d.threw =>
                      d.ops = Cardinality(ValidProductIDs(call[r][h].rows))
                 /\ d.ops > 0 <=> call[r][h].phase = "bulkWrite"
                 /\ d.ops = 0 => products' = products
        /\ products' # products =>
             \E r \in Runs, h \in Handlers :
               call[r][h].phase = "bulkWrite" /\ call'[r][h] = NoCall]_vars

\* The first valid row of a ProductID in a chunk.
FirstRowOf(chunkRows, productID) ==
  chunkRows[CHOOSE i \in 1..Len(chunkRows) :
              /\ ValidRow(chunkRows[i]) /\ chunkRows[i].row.ProductID = productID
              /\ \A j \in 1..(i - 1) :
                   ~(ValidRow(chunkRows[j])
                     /\ chunkRows[j].row.ProductID = productID)].row

\* C19: a stored Manufacturer record and a stored Vendor record are never
\* changed or removed by any step, whatever ManufacturerName later rows
\* carry for the id; and the manufacturerId written to a product is the
\* ManufacturerID of the group's row, as ensureManufacturer was given it.
C19_FirstWriteWins ==
  [][/\ Len(manufacturers') >= Len(manufacturers)
     /\ \A i \in 1..Len(manufacturers) : manufacturers'[i] = manufacturers[i]
     /\ Len(vendors') >= Len(vendors)
     /\ \A i \in 1..Len(vendors) : vendors'[i] = vendors[i]
     /\ \A r \in Runs, h \in Handlers : Returned(r, h) =>
          \A productID \in ValidProductIDs(call[r][h].rows) :
            ProductOf(products', productID).manufacturerId =
              FirstRowOf(call[r][h].rows, productID).ManufacturerID]_vars

\* Manufacturer M1 is stored as "Acme", and a later row that names it
\* "AcmeCo" was imported (its price is on the product).
C19_Witness ==
  /\ \E i \in 1..Len(manufacturers) :
       manufacturers[i] = [manufacturerId |-> "M1", name |-> "Acme"]
  /\ \E p \in Range(products) : \E v \in Range(p.variants) :
       v.price = 1200 /\ v.id.n > 0
  /\ \E d \in done : ~d.threw /\ d.ops > 0
  /\ \E e \in log : e.of = "manufacturer" /\ e.key = "M1" /\ e.op = "found"

\* The sku of a row of the file.
SkuOf(row) == row.ItemID \o row.ManufacturerItemCode \o row.PKG

\* The product of productID in coll holds the sku.
Holds(coll, productID, sku) ==
  \E i \in 1..Len(coll) :
    coll[i].productID = productID /\ sku \in Skus(coll[i].variants)

\* No processChunk invocation of the run has thrown.
Succeeded(r) == \A d \in done : d.r = r => ~d.threw

\* C20: when a run that read the file to its end has resolved, every chunk
\* having succeeded, the stored product of every valid row of the file
\* holds the row's sku, wherever the chunk boundaries fall; and the lookup
\* of a chunk returns, for the products of the chunk, the skus of all the
\* rows of earlier chunks of the run, as long as every chunk succeeded.
C20_CrossChunkCompleteness ==
  /\ [](\A r \in Runs : (status[r] = "resolved" /\ Succeeded(r)) =>
          \A i \in 1..Len(file) :
            ValidNumber(i) => Holds(products, file[i].ProductID, SkuOf(file[i])))
  /\ [][\A r \in Runs, h \in Handlers :
          (/\ call[r][h].phase = "find" /\ call'[r][h].phase = "checkVendor"
           /\ Succeeded(r)) =>
            \A i \in 1..(call[r][h].rows[1].n - 1) :
              (/\ ValidNumber(i)
               /\ file[i].ProductID \in ValidProductIDs(call[r][h].rows)) =>
                Holds(call'[r][h].existing, file[i].ProductID, SkuOf(file[i]))]_vars

\* A run over three rows has resolved; the first and the third row, in
\* different chunks, are of one product and of different skus.
C20_Witness ==
  /\ status["cron"] = "resolved" /\ Len(file) = 3
  /\ file[1].ProductID = file[3].ProductID
  /\ ValidNumber(1) /\ ValidNumber(3)
  /\ SkuOf(file[1]) # SkuOf(file[3])
  /\ Holds(products, file[1].ProductID, SkuOf(file[1]))
  /\ Holds(products, file[3].ProductID, SkuOf(file[3]))
====
